---- MODULE Spec2Model ----
(***************************************************************************)
(* Model of urlmon (src/main.go): the reload loop of main, loadChecks,     *)
(* createCheck, the Monitor goroutines, Check.Shutdown and statusHandler.  *)
(*                                                                         *)
(* One goroutine runs main (and loadChecks inside it), one goroutine runs  *)
(* per started Check (Check.Monitor), the etcd watcher feeds watchChan and *)
(* the HTTP server runs statusHandler on demand.                           *)
(***************************************************************************)
EXTENDS Integers, Sequences, FiniteSets, TLC

\* number of change notifications the configuration store produces
MaxReloads == 1

\* number of top-level entries a fetched snapshot may hold
MaxNodes == 2

\* the keys of the top-level entries, in the (sorted) order etcd returns them
Keys == <<"a", "b", "c", "d">>

\* number of Monitor goroutines the fetched snapshots start in total
MaxMonitors == 2

(***************************************************************************)
(* The configuration store.  A top-level node is a directory or not, and   *)
(* its URL and REGEX children are absent, invalid (url.Parse or            *)
(* regexp.Compile returns an error) or valid.                              *)
(***************************************************************************)
Node(k, dir, u, re) == [Key |-> k, Dir |-> dir, URL |-> u, REGEX |-> re]

\* the shapes of entry a snapshot is built from: not a directory, without
\* URL, with a REGEX that does not compile, well-formed (a URL that does not
\* parse leaves c.URL nil as an absent one does)
NodeShapes ==
    { [Dir |-> FALSE, URL |-> "absent",  REGEX |-> "absent"],
      [Dir |-> TRUE,  URL |-> "absent",  REGEX |-> "absent"],
      [Dir |-> TRUE,  URL |-> "valid",   REGEX |-> "invalid"],
      [Dir |-> TRUE,  URL |-> "valid",   REGEX |-> "absent"] }

\* every snapshot client.Get may return: up to MaxNodes entries, sorted keys
Snapshots ==
    UNION { { [i \in 1..n |-> Node(Keys[i], f[i].Dir, f[i].URL, f[i].REGEX)] :
                f \in [1..n -> NodeShapes] } : n \in 0..MaxNodes }

VARIABLES
    proc,       \* "running", or why the process ended: "fetch", "regex", "panic"
    mainPC,     \* position of the main goroutine
    gen,        \* number of loadChecks calls entered so far
    resp,       \* resp.Node.Nodes in the running loadChecks call, else << >>
    idx,        \* index of the range loop loadChecks is in
    Checks,     \* the global Checks slice
    mons,       \* every Monitor goroutine started so far
    pending,    \* notifications the watcher has not yet handed to main
    served      \* << Ids >> if the last step wrote a /status response, else << >>

\* one Check followed in detail, from its node to its Monitor's cycles
VARIABLES
    children,   \* the children of the Check's directory node, as etcd holds them
    chk,        \* the Check createCheck returned (the struct c points to)
    loadPC,     \* where loadChecks stands with this node
    entry,      \* the copy of *c that `append(Checks, *c)` writes into Checks
    monPC,      \* position of the Check's Monitor goroutine
    signal,     \* number of values in c.shutdown
    delay,      \* seconds the last time.Sleep was called with, 0 before the first
    cycle,      \* number of cycles the Monitor has entered
    res,        \* what http.Get returned in this cycle (r)
    event,      \* the SensuEvent reportStatus built in this cycle
    attempts,   \* number of send calls in this cycle
    sink,       \* the events the sensu client socket was written in this cycle
    status      \* << document >> if the last step wrote a /status response

cvars == <<children, chk, loadPC, entry, monPC, signal, delay, cycle, res, event,
           attempts, sink, status>>

\* the variables of the reload loop apart from proc
lvars == <<mainPC, gen, resp, idx, Checks, mons, pending, served>>

vars == <<proc, lvars, cvars>>

Running == proc = "running"

\* an optional value (a child a node may lack, a pointer that may be nil):
\* << >> when absent, << v >> when present
None == << >>
Some(v) == << v >>

\* a directory node without children
NoChildren ==
    [INTERVAL |-> None, SPLAY |-> None, LEVEL |-> None, CONTENT |-> None, REGEX |-> None]

\* the zero value of the Check struct
ZeroCheck ==
    [Id |-> "", Content |-> << >>, Level |-> "", ContentRegex |-> None,
     Interval |-> 0, Splay |-> 0]

\* no http.Get has returned in this cycle
NoResponse == [err |-> FALSE, validated |-> FALSE, r |-> None]

\* the single-Check view before loadChecks has reached the node
Unloaded ==
    /\ chk = ZeroCheck
    /\ loadPC = "create"
    /\ entry = << >>
    /\ monPC = "none"
    /\ signal = 0
    /\ delay = 0
    /\ cycle = 0
    /\ res = NoResponse
    /\ event = None
    /\ attempts = 0
    /\ sink = << >>
    /\ status = << >>

\* os.Exit (from log.Fatalf) or an unrecovered panic: the process dies with
\* all its goroutines and its memory
Exit(why) ==
    /\ proc' = why
    /\ resp' = << >>
    /\ idx' = 1
    /\ Checks' = << >>
    /\ mons' = << >>
    /\ pending' = 0
    /\ served' = << >>
    /\ UNCHANGED <<mainPC, gen, cvars>>

(***************************************************************************)
(* createCheck: the outcome of parsing one directory node.  A REGEX that   *)
(* does not compile ends the process (log.Fatalf); a URL that does not     *)
(* parse is logged and leaves c.URL nil; a nil URL is returned as an error.*)
(***************************************************************************)
\* createCheck without the test for a nil URL
createCheckNoURLTest(node) ==
    [ fatal |-> node.REGEX = "invalid",
      err   |-> FALSE,
      c     |-> [Id |-> node.Key] ]

createCheck(node) ==
    [ fatal |-> node.REGEX = "invalid",
      err   |-> node.URL # "valid",
      c     |-> [Id |-> node.Key] ]

\* a Check that takes over the channel of an earlier Check of its id, with
\* whatever that channel holds
NewMonitorReusingChannel(c, g) ==
    [Id |-> c.Id, gen |-> g, pc |-> "select",
     shutdown |-> IF \E o \in 1..Len(mons) : mons[o].Id = c.Id /\ mons[o].shutdown > 0
                  THEN 1 ELSE 0]

\* a Monitor goroutine as `go c.Monitor()` starts it: c.shutdown is empty, and
\* setupInterval and the gauge registration lead straight to the loop
NewMonitor(c, g) == [Id |-> c.Id, gen |-> g, pc |-> "select", shutdown |-> 0]

\* the ids of a slice of Checks, in order
Ids(cs) == [i \in 1..Len(cs) |-> cs[i].Id]

Init ==
    /\ proc = "running"
    /\ mainPC = "fetch"
    /\ gen = 1
    /\ resp = << >>
    /\ idx = 1
    /\ Checks = << >>
    /\ mons = << >>
    /\ pending = 0
    /\ served = << >>
    /\ children = NoChildren
    /\ Unloaded

(***************************************************************************)
(* loadChecks, statement by statement.                                     *)
(***************************************************************************)
\* client.Get fails: log.Fatalf, on the first load and on every later one
FetchFail ==
    /\ Running
    /\ mainPC = "fetch"
    /\ Exit("fetch")

\* the number of Monitors loadChecks starts for a snapshot
Starts(snap) ==
    Cardinality({ i \in 1..Len(snap) :
                    snap[i].Dir /\ ~createCheck(snap[i]).fatal /\ ~createCheck(snap[i]).err })

\* client.Get returns the snapshot the store holds at this moment
FetchOk ==
    /\ Running
    /\ mainPC = "fetch"
    /\ \E snap \in Snapshots :
          /\ Len(mons) + Starts(snap) <= MaxMonitors
          /\ resp' = snap
    /\ mainPC' = "shutdown"
    /\ idx' = 1
    /\ served' = << >>
    /\ UNCHANGED <<proc, gen, Checks, mons, pending, cvars>>

\* a Shutdown whose signal stays with the copy and never reaches the Monitor
ShutdownOnCopy(n) ==
    /\ mons[n.mon].shutdown < 1
    /\ mons' = mons

\* a Shutdown on a channel made without a buffer: the send completes only
\* in a rendezvous with the Monitor's receive in its select
ShutdownUnbuffered(n) ==
    /\ mons[n.mon].pc = "select"
    /\ mons' = [mons EXCEPT ![n.mon].pc = "done"]

\* Check.Shutdown on a copy n of Checks[i]: the copy shares the channel of
\* the Check the Monitor runs on; the send blocks while the buffer is full
Shutdown(n) ==
    /\ mons[n.mon].shutdown < 1
    /\ mons' = [mons EXCEPT ![n.mon].shutdown = @ + 1]

\* one iteration of `for _, n := range Checks { n.Shutdown() }`
ShutdownStep ==
    /\ Running
    /\ mainPC = "shutdown"
    /\ idx <= Len(Checks)
    /\ Shutdown(Checks[idx])
    /\ idx' = idx + 1
    /\ served' = << >>
    /\ UNCHANGED <<proc, mainPC, gen, resp, Checks, pending, cvars>>

\* the end of the shutdown loop without `Checks = nil`
ClearKeep ==
    /\ Running
    /\ mainPC = "shutdown"
    /\ idx > Len(Checks)
    /\ mainPC' = "load"
    /\ idx' = 1
    /\ served' = << >>
    /\ UNCHANGED <<proc, gen, resp, Checks, mons, pending, cvars>>

\* Checks = nil
Clear ==
    /\ Running
    /\ mainPC = "shutdown"
    /\ idx > Len(Checks)
    /\ Checks' = << >>
    /\ mainPC' = "load"
    /\ idx' = 1
    /\ served' = << >>
    /\ UNCHANGED <<proc, gen, resp, mons, pending, cvars>>

\* a load loop that leaves a Check of the generation before running when
\* the new snapshot holds its id again, instead of starting a new Monitor
LoadStepKeepUnchanged ==
    /\ Running
    /\ mainPC = "load"
    /\ idx <= Len(resp)
    /\ LET n == resp[idx]
           r == createCheck(n)
           old == { m \in 1..Len(mons) : mons[m].gen = gen - 1 /\ mons[m].Id = r.c.Id }
       IN  IF ~n.Dir \/ (~r.fatal /\ r.err)
           THEN /\ idx' = idx + 1
                /\ served' = << >>
                /\ UNCHANGED <<proc, mainPC, gen, resp, Checks, mons, pending, cvars>>
           ELSE IF r.fatal
           THEN Exit("regex")
           ELSE IF old # {}
           THEN /\ Checks' = Append(Checks, [Id |-> r.c.Id, mon |-> CHOOSE m \in old : TRUE])
                /\ idx' = idx + 1
                /\ served' = << >>
                /\ UNCHANGED <<proc, mainPC, gen, resp, mons, pending, cvars>>
           ELSE /\ mons' = Append(mons, NewMonitor(r.c, gen))
                /\ Checks' = Append(Checks, [Id |-> r.c.Id, mon |-> Len(mons) + 1])
                /\ idx' = idx + 1
                /\ served' = << >>
                /\ UNCHANGED <<proc, mainPC, gen, resp, pending, cvars>>

\* one iteration of `for _, n := range resp.Node.Nodes`
LoadStep ==
    /\ Running
    /\ mainPC = "load"
    /\ idx <= Len(resp)
    /\ LET n == resp[idx]
           r == createCheck(n)
       IN  IF ~n.Dir
           THEN /\ idx' = idx + 1
                /\ served' = << >>
                /\ UNCHANGED <<proc, mainPC, gen, resp, Checks, mons, pending, cvars>>
           ELSE IF r.fatal
           THEN Exit("regex")
           ELSE IF r.err
           THEN /\ idx' = idx + 1
                /\ served' = << >>
                /\ UNCHANGED <<proc, mainPC, gen, resp, Checks, mons, pending, cvars>>
           ELSE /\ mons' = Append(mons, NewMonitor(r.c, gen))
                /\ Checks' = Append(Checks, [Id |-> r.c.Id, mon |-> Len(mons) + 1])
                /\ idx' = idx + 1
                /\ served' = << >>
                /\ UNCHANGED <<proc, mainPC, gen, resp, pending, cvars>>

\* loadChecks returns; main blocks in `r := <-watchChan`
LoadReturn ==
    /\ Running
    /\ mainPC = "load"
    /\ idx > Len(resp)
    /\ mainPC' = "wait"
    /\ resp' = << >>
    /\ idx' = 1
    /\ served' = << >>
    /\ UNCHANGED <<proc, gen, Checks, mons, pending, cvars>>

loadChecks == FetchFail \/ FetchOk \/ ShutdownStep \/ Clear \/ LoadStep \/ LoadReturn

(***************************************************************************)
(* main: the watcher goroutine and the reload loop.                        *)
(***************************************************************************)
\* the notifications produced so far: those main has received (one per
\* loadChecks call after the first) and those still with the watcher
Notified == (gen - 1) + pending

\* something under the prefix changes; the watcher has one more response
\* to send on the unbuffered watchChan
EtcdChange ==
    /\ Running
    /\ Notified < MaxReloads
    /\ pending' = pending + 1
    /\ served' = << >>
    /\ UNCHANGED <<proc, mainPC, gen, resp, idx, Checks, mons, cvars>>

\* a receive that starts loadChecks wherever the call before it stands
WatchReceiveAnytime ==
    /\ Running
    /\ pending > 0
    /\ pending' = pending - 1
    /\ gen' = gen + 1
    /\ mainPC' = "fetch"
    /\ served' = << >>
    /\ UNCHANGED <<proc, resp, idx, Checks, mons, cvars>>

\* `r := <-watchChan` receives, and main calls loadChecks again
WatchReceive ==
    /\ Running
    /\ mainPC = "wait"
    /\ pending > 0
    /\ pending' = pending - 1
    /\ gen' = gen + 1
    /\ mainPC' = "fetch"
    /\ served' = << >>
    /\ UNCHANGED <<proc, resp, idx, Checks, mons, cvars>>

main == loadChecks \/ WatchReceive

(***************************************************************************)
(* Check.Monitor, for the m-th goroutine started.                          *)
(***************************************************************************)
\* what http.Get returns: a response, an error with a nil response, or (when
\* the redirect policy fails) an error together with a non-nil response
GetOutcomes == {"ok", "err", "redirectErr"}

\* a select that may enter the default branch although a signal is waiting
MonitorSelectMayMiss(m) ==
    /\ mons[m].pc = "select"
    /\ \/ /\ mons[m].shutdown > 0
          /\ mons' = [mons EXCEPT ![m].shutdown = @ - 1, ![m].pc = "done"]
       \/ mons' = [mons EXCEPT ![m].pc = "sleep"]

\* the select: take a pending shutdown signal and return, or else enter the
\* default branch and sleep
MonitorSelect(m) ==
    /\ mons[m].pc = "select"
    /\ IF mons[m].shutdown > 0
       THEN mons' = [mons EXCEPT ![m].shutdown = @ - 1, ![m].pc = "done"]
       ELSE mons' = [mons EXCEPT ![m].pc = "sleep"]

\* the rest of the default branch: time.Sleep returns, then http.Get,
\* reportStatus and r.Body.Close(); with a nil r the Close call dereferences
\* nil and the panic ends the process
MonitorProbe(m) ==
    /\ mons[m].pc = "sleep"
    /\ \E out \in GetOutcomes :
         IF out = "err"
         THEN Exit("panic")
         ELSE /\ mons' = [mons EXCEPT ![m].pc = "select"]
              /\ served' = << >>
              /\ UNCHANGED <<proc, mainPC, gen, resp, idx, Checks, pending, cvars>>

Monitor(m) ==
    /\ Running
    /\ m \in 1..Len(mons)
    /\ \/ /\ MonitorSelect(m)
          /\ served' = << >>
          /\ UNCHANGED <<proc, mainPC, gen, resp, idx, Checks, pending, cvars>>
       \/ MonitorProbe(m)

(***************************************************************************)
(* statusHandler: registered after the first loadChecks has returned.      *)
(***************************************************************************)
Serving == gen > 1 \/ mainPC = "wait"

\* a request is served: the handler writes the Checks it reads
statusHandler ==
    /\ Running
    /\ Serving
    /\ served' = << Ids(Checks) >>
    /\ UNCHANGED <<proc, mainPC, gen, resp, idx, Checks, mons, pending, cvars>>

Next ==
    \/ main
    \/ EtcdChange
    \/ \E m \in 1..MaxMonitors : Monitor(m)
    \/ statusHandler

Spec == Init /\ [][Next]_vars

TypeOK ==
    /\ proc \in {"running", "fetch", "regex", "panic"}
    /\ mainPC \in {"fetch", "shutdown", "load", "wait"}
    /\ gen \in 1..(MaxReloads + 1)
    /\ Len(resp) <= MaxNodes
    /\ Len(mons) <= MaxMonitors
    /\ \A m \in 1..Len(mons) : mons[m].shutdown \in 0..1

(***************************************************************************)
(* Fair scheduling: the main goroutine and every Monitor goroutine keep    *)
(* running, every sleep and every HTTP probe returns.                      *)
(***************************************************************************)
FairSpec ==
    /\ Spec
    /\ WF_vars(main)
    /\ \A m \in 1..MaxMonitors : WF_vars(Monitor(m))

(***************************************************************************)
(* Vocabulary of the properties.                                           *)
(***************************************************************************)
\* the m-th Monitor goroutine is started and has not returned
Live(m) == Running /\ m <= Len(mons) /\ mons[m].pc # "done"

\* the m-th Monitor belongs to a generation a later loadChecks call replaces
Superseded(m) == m <= Len(mons) /\ mons[m].gen < gen

\* the m-th Monitor has returned, or the process and its goroutines are gone
Stopped(m) == ~Running \/ (m <= Len(mons) /\ mons[m].pc = "done")

\* an entry that is a directory with a URL that parses and no broken REGEX
WellFormed(n) == n.Dir /\ n.URL = "valid" /\ n.REGEX # "invalid"

\* the keys of the well-formed entries among the first k of a snapshot
RECURSIVE WellFormedKeys(_, _)
WellFormedKeys(snap, k) ==
    IF k = 0 THEN << >>
    ELSE IF WellFormed(snap[k])
         THEN Append(WellFormedKeys(snap, k - 1), snap[k].Key)
         ELSE WellFormedKeys(snap, k - 1)

\* the ids of the Monitors generation g started, in the order of their start
RECURSIVE GenIds(_, _)
GenIds(g, k) ==
    IF k = 0 THEN << >>
    ELSE IF mons[k].gen = g
         THEN Append(GenIds(g, k - 1), mons[k].Id)
         ELSE GenIds(g, k - 1)

\* the elements of a sequence
Range(sq) == { sq[i] : i \in 1..Len(sq) }

(***************************************************************************)
(* Generations.                                                            *)
(***************************************************************************)
\* C1: no two Monitors of different generations with the same check id are
\* live at the same time
NoOverlappingGenerations ==
    \A m1, m2 \in 1..Len(mons) :
        (mons[m1].gen # mons[m2].gen /\ mons[m1].Id = mons[m2].Id)
            => ~(Live(m1) /\ Live(m2))

\* C2: a reload starts a Monitor of the new generation only when every
\* Monitor of the earlier generations has returned
DrainBeforeStart ==
    [][Len(mons') > Len(mons)
         => \A o \in 1..Len(mons) : mons[o].gen < gen => mons[o].pc = "done"]_vars

\* C3: every Monitor of a superseded generation eventually exits (time and
\* again a state comes in which all of them have), and a Monitor that has
\* returned never runs again
NoLeakedMonitors ==
    /\ []<>(\A m \in 1..MaxMonitors : Superseded(m) => Stopped(m))
    /\ [][\A m \in 1..Len(mons) :
            mons[m].pc = "done" /\ Running' => mons'[m] = mons[m]]_vars

\* a Monitor of a replaced generation has taken its signal and returned
\* while the process runs on
SupersededMonitorExited ==
    \E m \in 1..Len(mons) : Running /\ Superseded(m) /\ mons[m].pc = "done"

(***************************************************************************)
(* Failures.                                                               *)
(***************************************************************************)
\* C4: a probe that fails in the transport ends neither its Monitor nor
\* the process: no step of a Monitor panics
TransportFailureTolerated == proc # "panic"

\* C5: a failed fetch ends the process on the first load only; on a later
\* reload the process runs on with its generation
FetchFailureFatalOnFirstLoadOnly == proc = "fetch" => gen = 1

\* C6: a REGEX that does not compile never ends the process
BadRegexNeverFatal == proc # "regex"

PublishedIdsAreValidEntries ==
    [][(mainPC = "load" /\ mainPC' = "wait") =>
          Range(Ids(Checks')) =
             { resp[k].Key : k \in { j \in 1..Len(resp) : WellFormed(resp[j]) } }]_vars

\* a reload has returned and an id of the generation before it is gone
StaleIdDropped ==
    /\ Running
    /\ mainPC = "wait"
    /\ \E m \in 1..Len(mons) :
          mons[m].gen < gen /\ mons[m].Id \notin Range(Ids(Checks))

(***************************************************************************)
(* The status query and the reload loop.                                   *)
(***************************************************************************)
\* C9: a status read during a reload sees the complete set of the previous
\* generation or the complete set of the new one
StatusReadAtomic ==
    served # << >> =>
        served[1] \in
           CASE mainPC = "wait" -> { GenIds(gen, Len(mons)) }
             [] mainPC = "load" -> { GenIds(gen - 1, Len(mons)),
                                     WellFormedKeys(resp, Len(resp)) }
             [] OTHER -> { GenIds(gen - 1, Len(mons)) }

\* C10: loadChecks is entered again only by the receive in main's loop, one
\* notification at a time and only after the call before it has returned; a
\* notification that arrives during a call waits
ReloadNotReentrant ==
    [][gen' # gen =>
          /\ mainPC = "wait"
          /\ mainPC' = "fetch"
          /\ gen' = gen + 1
          /\ pending' = pending - 1]_vars

\* a notification is waiting while loadChecks runs
NotificationQueuedDuringReload ==
    Running /\ mainPC \in {"shutdown", "load"} /\ pending > 0

(***************************************************************************)
(* Cancellation and the independence of Monitors.                          *)
(***************************************************************************)
\* C11: a Monitor whose cancellation signal was raised before its sleep
\* finished returns without another probe: with the signal in its channel
\* and the sleep still running, its next step is not a probe
NoProbeAfterSignal ==
    [][\A m \in 1..Len(mons) :
          (mons[m].pc = "sleep" /\ mons[m].shutdown > 0 /\ Running')
             => mons'[m].pc = "sleep"]_vars

\* the step is the end of a cycle of the a-th Monitor: its probe came back
\* and was reported, or the probe's transport error ended in the panic
ProbeOf(a) ==
    /\ mons[a].pc = "sleep"
    /\ \/ proc' = "panic"
       \/ Running' /\ mons'[a].pc = "select"

\* C12: whatever the outcome of a probe of Check A, the Monitor of another
\* Check B of the same generation stays live and as it was
ProbeFailureContained ==
    [][\A a, b \in 1..Len(mons) :
          (a # b /\ mons[a].gen = mons[b].gen /\ Live(b) /\ ProbeOf(a))
             => Live(b)' /\ mons'[b] = mons[b]]_vars

(***************************************************************************)
(* Reloads.                                                                *)
(***************************************************************************)
\* the m-th Monitor has been sent its cancellation signal
Signalled(m) == mons[m].shutdown > 0 \/ mons[m].pc = "done"

\* C19: a reload that fetches the snapshot the reload before it fetched (the
\* same valid entries in the same order) replaces the generation in full:
\* when it returns every Monitor of the earlier generation has been sent its
\* signal, every valid Check has a Monitor this reload started, and no entry
\* of Checks is run by a Monitor of an earlier generation
IdenticalReloadReplaces ==
    [][(mainPC = "load" /\ mainPC' = "wait" /\ gen > 1
          /\ WellFormedKeys(resp, Len(resp)) = GenIds(gen - 1, Len(mons)))
        => /\ \A m \in 1..Len(mons') : mons'[m].gen = gen - 1 => Signalled(m)'
           /\ GenIds(gen, Len(mons))' = WellFormedKeys(resp, Len(resp))
           /\ \A i \in 1..Len(Checks') : mons'[Checks'[i].mon].gen = gen]_vars

\* a second reload found the checks the first one had found and has returned
IdenticalReloadDone ==
    /\ Running
    /\ mainPC = "wait"
    /\ gen > 1
    /\ GenIds(gen, Len(mons)) # << >>
    /\ GenIds(gen, Len(mons)) = GenIds(gen - 1, Len(mons))

\* the signals the m-th Monitor's channel has been sent in its lifetime:
\* the one in the buffer and the one the Monitor took before it returned
SignalsSent(m) == mons[m].shutdown + (IF mons[m].pc = "done" THEN 1 ELSE 0)

MaxBody == 2

\* number of cycles the followed Monitor enters
MaxCycles == 2

DefaultInterval == 15
DefaultSplay == 5
DefaultAlertLevel == "WARN"

DigitValue ==
    [ch \in {"0", "1", "2", "3", "4", "5", "6", "7", "8", "9"} |->
        CASE ch = "0" -> 0 [] ch = "1" -> 1 [] ch = "2" -> 2 [] ch = "3" -> 3
          [] ch = "4" -> 4 [] ch = "5" -> 5 [] ch = "6" -> 6 [] ch = "7" -> 7
          [] ch = "8" -> 8 [] ch = "9" -> 9]

\* the value of a string of digits, read from the left; None if a character
\* is not a digit
RECURSIVE ParseDigits(_, _)
ParseDigits(str, acc) ==
    IF str = << >> THEN Some(acc)
    ELSE IF Head(str) \notin DOMAIN DigitValue THEN None
    ELSE ParseDigits(Tail(str), acc * 10 + DigitValue[Head(str)])

\* strconv.Atoi: an optional sign and at least one digit, else an error
Atoi(str) ==
    LET signed == str # << >> /\ Head(str) \in {"+", "-"}
        digits == IF signed THEN Tail(str) ELSE str
        n      == IF digits = << >> THEN None ELSE ParseDigits(digits, 0)
    IN  IF n = None THEN [err |-> TRUE, v |-> 0]
        ELSE [err |-> FALSE, v |-> IF signed /\ Head(str) = "-" THEN 0 - n[1] ELSE n[1]]

valueStr(value) == IF Atoi(value).err THEN 0 ELSE Atoi(value).v

\* strings.ToUpper on the LEVEL values the store holds
ToUpper(str) ==
    CASE str = "critical" -> "CRITICAL"
      [] str = "Warn"     -> "WARN"
      [] str = "info"     -> "INFO"
      [] OTHER            -> str

\* the Check createCheck returns for a directory node with a URL that parses
\* and the given other children
createCheckFields(nd) ==
    LET level    == IF nd.LEVEL = None THEN ""
                    ELSE IF ToUpper(nd.LEVEL[1]) = "" THEN DefaultAlertLevel
                    ELSE ToUpper(nd.LEVEL[1])
        splay    == IF nd.SPLAY = None THEN 0 ELSE valueStr(nd.SPLAY[1])
        interval == IF nd.INTERVAL = None THEN 0 ELSE valueStr(nd.INTERVAL[1])
    IN  [ Id           |-> "a",
          Content      |-> IF nd.CONTENT = None THEN << >> ELSE nd.CONTENT[1],
          Level        |-> IF level = "" THEN DefaultAlertLevel ELSE level,
          ContentRegex |-> nd.REGEX,
          Interval     |-> IF interval = 0 THEN DefaultInterval ELSE interval,
          Splay        |-> IF splay = 0 THEN DefaultSplay ELSE splay ]

\* strings.HasPrefix
HasPrefix(str, prefix) ==
    Len(prefix) <= Len(str) /\ SubSeq(str, 1, Len(prefix)) = prefix

\* strings.Contains: the substring starts at the head of str or further on
RECURSIVE Contains(_, _)
Contains(str, substr) ==
    IF HasPrefix(str, substr) THEN TRUE
    ELSE IF str = << >> THEN FALSE
    ELSE Contains(Tail(str), substr)

\* a compiled pattern is a sequence of literal characters and "." (any
\* character); it matches at the head of str when every position agrees
MatchHere(re, str) ==
    /\ Len(re) <= Len(str)
    /\ \A i \in 1..Len(re) : re[i] = "." \/ re[i] = str[i]

\* Regexp.Match: the pattern, not anchored, matches somewhere in str
RECURSIVE Match(_, _)
Match(re, str) ==
    IF MatchHere(re, str) THEN TRUE
    ELSE IF str = << >> THEN FALSE
    ELSE Match(re, Tail(str))

\* Validate with the failure code of a WARN check for every Level
ValidateAlwaysWarn(ck, response) ==
    LET errorVal == 1
    IN  IF ~response.readable
        THEN [code |-> errorVal, status |-> "Error reading response"]
        ELSE IF ck.Content # << >> /\ ~Contains(response.body, ck.Content)
        THEN [code |-> errorVal, status |-> "Content match failed"]
        ELSE IF ck.ContentRegex # None /\ ~Match(ck.ContentRegex[1], response.body)
        THEN [code |-> errorVal, status |-> "Content Regex did not match"]
        ELSE [code |-> 0, status |-> response.Status]

\* Check.Validate
Validate(ck, response) ==
    LET errorVal == IF ck.Level = "CRITICAL" THEN 2 ELSE 1
    IN  IF ~response.readable
        THEN [code |-> errorVal, status |-> "Error reading response"]
        ELSE IF ck.Content # << >> /\ ~Contains(response.body, ck.Content)
        THEN [code |-> errorVal, status |-> "Content match failed"]
        ELSE IF ck.ContentRegex # None /\ ~Match(ck.ContentRegex[1], response.body)
        THEN [code |-> errorVal, status |-> "Content Regex did not match"]
        ELSE [code |-> 0, status |-> response.Status]

\* the SensuEvent reportStatus builds and hands to send
reportStatus(ck, code, msg) == [Name |-> ck.Id, Output |-> msg, Status |-> code]

(***************************************************************************)
(* The nodes, responses and deliveries the followed Check meets.           *)
(***************************************************************************)
\* INTERVAL and SPLAY values: empty, not a number, zero, negative, positive
RawInts == { << >>, <<"x">>, <<"0">>, <<"-", "1">>, <<"2">> }

OptionOf(S) == {None} \cup { Some(v) : v \in S }

\* nodes that vary INTERVAL and SPLAY, and nodes that vary the children
\* Validate reads; createCheck handles every child on its own
IntervalNodes ==
    { [NoChildren EXCEPT !.INTERVAL = i, !.SPLAY = sp] :
        i \in OptionOf(RawInts), sp \in OptionOf(RawInts) }

ValidationNodes ==
    { [NoChildren EXCEPT !.LEVEL = l, !.CONTENT = ct, !.REGEX = re] :
        l  \in OptionOf({"", "critical", "info"}),
        ct \in OptionOf({<<"o">>, <<"o", "k">>}),
        re \in OptionOf({<<"k", ".">>}) }

CheckNodes == IntervalNodes \cup ValidationNodes

\* the response bodies: every string over two characters up to MaxBody
Bodies == UNION { [1..n -> {"o", "k"}] : n \in 0..MaxBody }

\* the responses http.Get returns without an error; ioutil.ReadAll on the
\* body succeeds or fails
Responses ==
    { [Status |-> "200 OK", readable |-> TRUE, body |-> b] : b \in Bodies }
      \cup { [Status |-> "200 OK", readable |-> FALSE, body |-> << >>] }

\* what net.Dial and json.Marshal in send come to
SendOutcomes == {"written", "dialError", "marshalError"}

\* the document statusHandler writes for one entry of Checks: the exported
\* fields of the Check struct
StatusDocument(e) ==
    [ Id |-> e.Id, Content |-> e.Content, Level |-> e.Level,
      ContentRegex |-> IF e.ContentRegex = None THEN "null" ELSE "{}",
      Interval |-> e.Interval, Splay |-> e.Splay ]

CheckInit ==
    /\ proc = "running"
    /\ mainPC = "fetch"
    /\ gen = 1
    /\ resp = << >>
    /\ idx = 1
    /\ Checks = << >>
    /\ mons = << >>
    /\ pending = 0
    /\ served = << >>
    /\ children \in CheckNodes
    /\ Unloaded

(***************************************************************************)
(* loadChecks on the followed node.                                        *)
(***************************************************************************)
\* c, err := createCheck(n)
CreateCheck ==
    /\ Running
    /\ loadPC = "create"
    /\ chk' = createCheckFields(children)
    /\ loadPC' = "go"
    /\ status' = << >>
    /\ UNCHANGED <<proc, lvars, children, entry, monPC, signal, delay, cycle, res,
                   event, attempts, sink>>

\* go c.Monitor(); the append that follows starts to copy *c with the
\* fields nothing writes any more
GoMonitor ==
    /\ Running
    /\ loadPC = "go"
    /\ monPC' = "interval"
    /\ entry' = [Id |-> chk.Id, Content |-> chk.Content, Level |-> chk.Level,
                 ContentRegex |-> chk.ContentRegex]
    /\ loadPC' = "append"
    /\ status' = << >>
    /\ UNCHANGED <<proc, lvars, children, chk, signal, delay, cycle, res, event,
                   attempts, sink>>

\* Checks = append(Checks, *c): the copy reads Interval and Splay, in an
\* order of its own, while the Monitor may be writing them
AppendCopy ==
    /\ Running
    /\ loadPC = "append"
    /\ \E f \in {"Interval", "Splay"} \ DOMAIN entry :
          /\ entry' = entry @@ (f :> chk[f])
          /\ loadPC' = IF {"Interval", "Splay"} \subseteq DOMAIN entry'
                       THEN "wait" ELSE "append"
    /\ status' = << >>
    /\ UNCHANGED <<proc, lvars, children, chk, monPC, signal, delay, cycle, res,
                   event, attempts, sink>>

\* the next loadChecks: n.Shutdown() on the entry, then Checks = nil
ReloadShutdown ==
    /\ Running
    /\ loadPC = "wait"
    /\ signal < 1
    /\ signal' = signal + 1
    /\ entry' = << >>
    /\ loadPC' = "replaced"
    /\ status' = << >>
    /\ UNCHANGED <<proc, lvars, children, chk, monPC, delay, cycle, res, event,
                   attempts, sink>>

\* statusHandler while the Check is in Checks
StatusRead ==
    /\ Running
    /\ loadPC = "wait"
    /\ status' = << StatusDocument(entry) >>
    /\ UNCHANGED <<proc, lvars, children, chk, loadPC, entry, monPC, signal, delay,
                   cycle, res, event, attempts, sink>>

(***************************************************************************)
(* Check.Monitor on the followed Check.                                    *)
(***************************************************************************)
\* setupInterval: if c.Interval <= 0 { c.Interval = DefaultInterval }
SetupInterval ==
    /\ Running
    /\ monPC = "interval"
    /\ chk' = IF chk.Interval <= 0 THEN [chk EXCEPT !.Interval = DefaultInterval] ELSE chk
    /\ monPC' = "splay"
    /\ status' = << >>
    /\ UNCHANGED <<proc, lvars, children, loadPC, entry, signal, delay, cycle, res,
                   event, attempts, sink>>

\* setupInterval: if c.Splay <= 0 { c.Splay = DefaultSplay }
SetupSplay ==
    /\ Running
    /\ monPC = "splay"
    /\ chk' = IF chk.Splay <= 0 THEN [chk EXCEPT !.Splay = DefaultSplay] ELSE chk
    /\ monPC' = "jitter"
    /\ status' = << >>
    /\ UNCHANGED <<proc, lvars, children, loadPC, entry, signal, delay, cycle, res,
                   event, attempts, sink>>

\* the jitter drawn from 0..c.Splay, c.Splay included
SetupJitterInclusive ==
    /\ Running
    /\ monPC = "jitter"
    /\ \E j \in 0..chk.Splay : chk' = [chk EXCEPT !.Interval = @ + j]
    /\ monPC' = "select"
    /\ status' = << >>
    /\ UNCHANGED <<proc, lvars, children, loadPC, entry, signal, delay, cycle, res,
                   event, attempts, sink>>

\* setupInterval: c.Interval += rand.Intn(c.Splay); then the gauge and the loop
SetupJitter ==
    /\ Running
    /\ monPC = "jitter"
    /\ \E j \in 0..(chk.Splay - 1) : chk' = [chk EXCEPT !.Interval = @ + j]
    /\ monPC' = "select"
    /\ status' = << >>
    /\ UNCHANGED <<proc, lvars, children, loadPC, entry, signal, delay, cycle, res,
                   event, attempts, sink>>

\* the select of the loop: a value in c.shutdown is taken and Monitor
\* returns, else the default branch is entered
CheckSelect ==
    /\ Running
    /\ monPC = "select"
    /\ IF signal > 0
       THEN signal' = signal - 1 /\ monPC' = "done"
       ELSE signal' = signal /\ monPC' = "sleep"
    /\ status' = << >>
    /\ UNCHANGED <<proc, lvars, children, chk, loadPC, entry, delay, cycle, res,
                   event, attempts, sink>>

\* time.Sleep(time.Duration(c.Interval) * time.Second)
CheckSleep ==
    /\ Running
    /\ monPC = "sleep"
    /\ cycle < MaxCycles
    /\ delay' = chk.Interval
    /\ cycle' = cycle + 1
    /\ monPC' = "get"
    /\ status' = << >>
    /\ UNCHANGED <<proc, lvars, children, chk, loadPC, entry, signal, res, event,
                   attempts, sink>>

\* the report of a transport error at the code of the Check's Level
transportFailureByLevel(ck) ==
    [code |-> IF ck.Level = "CRITICAL" THEN 2 ELSE 1, status |-> "err.Error()"]

\* the arguments of reportStatus when http.Get returned an error
transportFailure(ck) == [code |-> 2, status |-> "err.Error()"]

\* r, err := http.Get(...) and the call of reportStatus, up to event.send()
CheckGet ==
    /\ Running
    /\ monPC = "get"
    /\ \/ \E rnil \in BOOLEAN :
             /\ res' = [err |-> TRUE, validated |-> FALSE,
                        r |-> IF rnil THEN None
                              ELSE Some([Status |-> "302 Found", readable |-> TRUE,
                                         body |-> << >>])]
             /\ event' = Some(reportStatus(chk, transportFailure(chk).code,
                                                transportFailure(chk).status))
       \/ \E response \in Responses :
             /\ res' = [err |-> FALSE, validated |-> TRUE, r |-> Some(response)]
             /\ event' = Some(reportStatus(chk, Validate(chk, response).code,
                                                Validate(chk, response).status))
    /\ monPC' = "send"
    /\ status' = << >>
    /\ UNCHANGED <<proc, lvars, children, chk, loadPC, entry, signal, delay, cycle,
                   attempts, sink>>

\* a send that dials again when the connection failed
sendWithRetry ==
    /\ Running
    /\ monPC = "send"
    /\ \E o \in SendOutcomes :
          /\ sink' = IF o = "written" THEN Append(sink, event[1]) ELSE sink
          /\ monPC' = IF o = "dialError" /\ attempts < 1 THEN "send" ELSE "close"
    /\ attempts' = attempts + 1
    /\ status' = << >>
    /\ UNCHANGED <<proc, lvars, children, chk, loadPC, entry, signal, delay, cycle,
                   res, event>>

\* SensuEvent.send: the event is written to the socket, or the error of
\* net.Dial or json.Marshal is logged and send returns
send ==
    /\ Running
    /\ monPC = "send"
    /\ \E o \in SendOutcomes :
          sink' = IF o = "written" THEN Append(sink, event[1]) ELSE sink
    /\ attempts' = attempts + 1
    /\ monPC' = "close"
    /\ status' = << >>
    /\ UNCHANGED <<proc, lvars, children, chk, loadPC, entry, signal, delay, cycle,
                   res, event>>

\* r.Body.Close(): a nil r panics and the process ends; else the loop goes
\* round
CheckClose ==
    /\ Running
    /\ monPC = "close"
    /\ IF res.r = None
       THEN /\ proc' = "panic"
            /\ UNCHANGED <<monPC, res, attempts, sink>>
       ELSE /\ monPC' = "select"
            /\ res' = NoResponse
            /\ attempts' = 0
            /\ sink' = << >>
            /\ UNCHANGED proc
    /\ status' = << >>
    /\ UNCHANGED <<lvars, children, chk, loadPC, entry, signal, delay, cycle, event>>

CheckNext ==
    \/ CreateCheck
    \/ GoMonitor
    \/ AppendCopy
    \/ ReloadShutdown
    \/ StatusRead
    \/ SetupInterval
    \/ SetupSplay
    \/ SetupJitter
    \/ CheckSelect
    \/ CheckSleep
    \/ CheckGet
    \/ send
    \/ CheckClose

CheckSpec == CheckInit /\ [][CheckNext]_vars

(***************************************************************************)
(* The Check and its schedule.                                             *)
(***************************************************************************)
\* C13: once createCheck has returned the Check, no later step of its
\* Monitor or of loadChecks changes any of its fields
CheckImmutable ==
    [][loadPC # "create" => chk' = chk]_vars

\* the value a child INTERVAL or SPLAY stands for: its number when it is a
\* positive number, the default when it is absent, empty, not a number,
\* zero or negative
Configured(child, default) ==
    IF child = None THEN default
    ELSE IF Atoi(child[1]).err \/ Atoi(child[1]).v <= 0 THEN default
    ELSE Atoi(child[1]).v

\* C16: every delay the Monitor sleeps lies in [interval, interval + splay)
\* for the configured-or-default interval and splay, and every cycle
\* sleeps the delay of the first
DelayWithinSplay ==
    /\ [](delay # 0 =>
            /\ delay >= Configured(children.INTERVAL, DefaultInterval)
            /\ delay <  Configured(children.INTERVAL, DefaultInterval)
                          + Configured(children.SPLAY, DefaultSplay))
    /\ [][delay # 0 => delay' = delay]_vars

\* the Monitor of a Check with a negative INTERVAL and a SPLAY of 2 is in its
\* second cycle, and its jitter was not zero
SecondSleepWithJitter ==
    /\ cycle = 2
    /\ children.INTERVAL = Some(<<"-", "1">>)
    /\ children.SPLAY = Some(<<"2">>)
    /\ delay = DefaultInterval + 1

(***************************************************************************)
(* The probe and its report.                                               *)
(***************************************************************************)
\* C14: Validate returns 0 with the HTTP status text exactly when the body
\* is readable, Content is empty or a substring of the body and
\* ContentRegex is nil or matches in the body; else it returns 2 for a
\* CRITICAL Check and 1 for any other, with the message of a failed rule
ValidateMeetsContract ==
    (monPC = "send" /\ res.validated) =>
        LET response  == res.r[1]
            body      == response.body
            contentOk == \/ chk.Content = << >>
                         \/ \E i \in 1..(Len(body) + 1), j \in 0..Len(body) :
                               SubSeq(body, i, j) = chk.Content
            regexOk   == \/ chk.ContentRegex = None
                         \/ \E i \in 1..(Len(body) + 1) :
                               MatchHere(chk.ContentRegex[1], SubSeq(body, i, Len(body)))
            failed    == IF ~response.readable THEN {"Error reading response"}
                         ELSE (IF contentOk THEN {} ELSE {"Content match failed"})
                              \cup (IF regexOk THEN {} ELSE {"Content Regex did not match"})
            e         == event[1]
        IN  /\ e.Status = 0 <=> (response.readable /\ contentOk /\ regexOk)
            /\ e.Status = 0 => e.Output = response.Status
            /\ e.Status # 0 =>
                  /\ e.Status = IF chk.Level = "CRITICAL" THEN 2 ELSE 1
                  /\ e.Output \in failed

\* a CRITICAL Check with Content and ContentRegex got a body that holds the
\* Content and does not match the pattern
CriticalRegexMismatch ==
    /\ monPC = "send"
    /\ res.validated
    /\ chk.Level = "CRITICAL"
    /\ chk.Content # << >>
    /\ Contains(res.r[1].body, chk.Content)
    /\ event[1].Status = 2
    /\ event[1].Output = "Content Regex did not match"

\* C15: a probe that fails in the transport is reported to the alert sink
\* once, with code 2 whatever the Level, and Validate is not called
TransportFailureIsCritical ==
    /\ (monPC \in {"send", "close"} /\ res.err) =>
           event[1].Status = 2 /\ ~res.validated
    /\ (monPC = "close" /\ res.err) =>
           attempts = 1 /\ \A i \in 1..Len(sink) : sink[i].Status = 2

\* the sensu client received the event of a failed probe of a Check that
\* is not CRITICAL
WarnCheckTransportFailureSent ==
    /\ monPC = "close"
    /\ res.err
    /\ chk.Level # "CRITICAL"
    /\ sink # << >>
    /\ sink[1].Status = 2

\* C17: a status query after a completed probe returns that probe's
\* status and message for the Check
StatusShowsLastProbe ==
    (status # << >> /\ event # None /\ monPC \in {"select", "sleep", "get", "done"}) =>
        /\ {"Status", "Output"} \subseteq DOMAIN status[1]
        /\ status[1].Status = event[1].Status
        /\ status[1].Output = event[1].Output

\* C18: send is called once in a cycle; whether the event was written or
\* the connection or the marshalling failed, the process runs on, the
\* Monitor goes on to the end of its cycle and nothing else has changed
DeliveryFailureDropped ==
    /\ [](monPC = "close" => attempts = 1)
    /\ [][attempts' > attempts =>
            /\ Running'
            /\ attempts' = 1
            /\ monPC' = "close"
            /\ UNCHANGED <<chk, signal, delay, cycle, res, event, entry>>]_vars

\* in the Monitor's second cycle the delivery failed and the Monitor has
\* gone on to the end of the cycle
NextCycleAfterFailedDelivery ==
    /\ monPC = "close"
    /\ attempts = 1
    /\ sink = << >>
    /\ res.r # None
    /\ cycle = 2

(***************************************************************************)
(* The cancellation signal.                                                *)
(***************************************************************************)
\* C21: once Shutdown has been called for a Check its Monitor runs at most
\* one more cycle: with the signal in its channel, a Monitor in its sleep
\* goes through this one probe to the select, and a Monitor at the select
\* takes the signal and returns
BoundedShutdownResponse ==
    [][\A m \in 1..Len(mons) :
          (mons[m].shutdown > 0 /\ Running' /\ mons'[m].pc # mons[m].pc)
             => \/ mons[m].pc = "sleep" /\ mons'[m].pc = "select"
                \/ mons[m].pc = "select" /\ mons'[m].pc = "done"]_vars

\* a Monitor that was signalled stands at its select after the reload that
\* signalled it has returned
SignalWaitingAtSelect ==
    /\ Running
    /\ mainPC = "wait"
    /\ \E m \in 1..Len(mons) :
          Superseded(m) /\ mons[m].pc = "select" /\ mons[m].shutdown = 1

\* C22: a signal goes to the Monitor of the one Check it was sent to, a
\* Check of an earlier generation that the shutdown loop stands at, and no
\* Monitor the latest loadChecks call started has a signal waiting or taken,
\* also when it has the id of a Monitor that was signalled
SignalsScopedToOneMonitor ==
    /\ [](\A m \in 1..Len(mons) : mons[m].gen = gen => ~Signalled(m))
    /\ [][\A m \in 1..Len(mons) :
            (Running' /\ mons'[m].shutdown > mons[m].shutdown)
               => /\ mainPC = "shutdown"
                  /\ idx <= Len(Checks)
                  /\ Checks[idx].mon = m
                  /\ mons[m].gen < gen
                  /\ \A o \in 1..Len(mons) : o # m => mons'[o] = mons[o]]_vars

\* a reload has started a Monitor with the id of a Monitor it has signalled
SameIdAcrossGenerations ==
    /\ Running
    /\ \E o, m \in 1..Len(mons) :
          /\ mons[o].gen < gen
          /\ mons[m].gen = gen
          /\ mons[o].Id = mons[m].Id
          /\ Signalled(o)

(***************************************************************************)
(* The variant of the program in which Check.shutdown is a bool            *)
(* (src/unnamed/part_000, lines 167-502).  client.Get, `Checks = nil`, the *)
(* return of loadChecks, main's loop and statusHandler read as in main.go; *)
(* createCheck, the shutdown loop, the load loop and Monitor differ.       *)
(***************************************************************************)
\* createCheck: a REGEX that does not compile ends the process; a Check
\* without URL is returned like any other, with a nil URL
flagCreateCheck(node) ==
    [ fatal |-> node.REGEX = "invalid",
      c     |-> [Id |-> node.Key, URL |-> node.URL = "valid"] ]

\* the Monitor goroutine `go c.Monitor()` starts on *c: c.shutdown is false
FlagNewMonitor(c, g) ==
    [Id |-> c.Id, gen |-> g, pc |-> "test", shutdown |-> FALSE, URL |-> c.URL]

\* the number of Monitors loadChecks starts for a snapshot
FlagStarts(snap) ==
    Cardinality({ i \in 1..Len(snap) : snap[i].Dir /\ ~flagCreateCheck(snap[i]).fatal })

FlagFetchOk ==
    /\ Running
    /\ mainPC = "fetch"
    /\ \E snap \in Snapshots :
          /\ Len(mons) + FlagStarts(snap) <= MaxMonitors
          /\ resp' = snap
    /\ mainPC' = "shutdown"
    /\ idx' = 1
    /\ served' = << >>
    /\ UNCHANGED <<proc, gen, Checks, mons, pending, cvars>>

\* Check.Shutdown with the loop variable n as receiver: n is a copy of
\* Checks[i], itself a copy of the Check the Monitor runs on; the flag is
\* set in n and n is dropped at the end of the iteration
FlagShutdown(n) ==
    LET set == [n EXCEPT !.shutdown = TRUE]
    IN  /\ set.shutdown
        /\ mons' = mons
        /\ Checks' = Checks

\* one iteration of `for _, n := range Checks { n.Shutdown() }`
FlagShutdownStep ==
    /\ Running
    /\ mainPC = "shutdown"
    /\ idx <= Len(Checks)
    /\ FlagShutdown(Checks[idx])
    /\ idx' = idx + 1
    /\ served' = << >>
    /\ UNCHANGED <<proc, mainPC, gen, resp, pending, cvars>>

\* one iteration of `for _, n := range resp.Node.Nodes`
FlagLoadStep ==
    /\ Running
    /\ mainPC = "load"
    /\ idx <= Len(resp)
    /\ LET n == resp[idx]
           r == flagCreateCheck(n)
       IN  IF ~n.Dir
           THEN /\ idx' = idx + 1
                /\ served' = << >>
                /\ UNCHANGED <<proc, mainPC, gen, resp, Checks, mons, pending, cvars>>
           ELSE IF r.fatal
           THEN Exit("regex")
           ELSE /\ mons' = Append(mons, FlagNewMonitor(r.c, gen))
                /\ Checks' = Append(Checks, [Id |-> r.c.Id, mon |-> Len(mons) + 1,
                                             shutdown |-> FALSE])
                /\ idx' = idx + 1
                /\ served' = << >>
                /\ UNCHANGED <<proc, mainPC, gen, resp, pending, cvars>>

flagLoadChecks ==
    FetchFail \/ FlagFetchOk \/ FlagShutdownStep \/ Clear \/ FlagLoadStep \/ LoadReturn

flagMain == flagLoadChecks \/ WatchReceive

\* Check.Monitor: the test `c.shutdown != true` of the loop, then the sleep
\* and the probe; c.URL.String() on a nil URL panics, a transport error
\* is reported like a response
FlagMonitor(m) ==
    /\ Running
    /\ m \in 1..Len(mons)
    /\ \/ /\ mons[m].pc = "test"
          /\ mons' = [mons EXCEPT ![m].pc = IF mons[m].shutdown THEN "done" ELSE "sleep"]
          /\ served' = << >>
          /\ UNCHANGED <<proc, mainPC, gen, resp, idx, Checks, pending, cvars>>
       \/ /\ mons[m].pc = "sleep"
          /\ IF ~mons[m].URL
             THEN Exit("panic")
             ELSE /\ mons' = [mons EXCEPT ![m].pc = "test"]
                  /\ served' = << >>
                  /\ UNCHANGED <<proc, mainPC, gen, resp, idx, Checks, pending, cvars>>

FlagNext ==
    \/ flagMain
    \/ EtcdChange
    \/ \E m \in 1..MaxMonitors : FlagMonitor(m)
    \/ statusHandler

FlagSpec == Init /\ [][FlagNext]_vars

\* C23: in the bool variant, once loadChecks has called Shutdown on the
\* entries of Checks, the Monitor started for such an entry finds
\* shutdown == true at its next loop test and exits
FlagShutdownStopsMonitor ==
    [][\A m \in 1..Len(mons) :
          (/\ mons[m].gen < gen
           /\ mainPC \in {"load", "wait"}
           /\ mons[m].pc = "test"
           /\ Running'
           /\ mons'[m].pc # "test")
             => mons'[m].pc = "done"]_vars

====
